---- MODULE Spec2Model ----
(***************************************************************************)
(* Model of the directory structure scanner, OrdnerStruktureChecken.py.    *)
(*                                                                         *)
(* Text is modelled as sequences of Unicode code points, so that           *)
(* str.lower(), Path.suffix and tuple comparison are computed rather than  *)
(* assumed.  The file system is the program's input: a finite tree of      *)
(* nodes, fixed for the duration of a run.  The recursion of               *)
(* scan_directory is an explicit stack of frames; one action is one        *)
(* iteration of the for loop of lines 52-80, the call of line 80 and the   *)
(* listing it starts with (lines 46-50) included.                          *)
(***************************************************************************)
EXTENDS Naturals, Integers, Sequences, FiniteSets

(***************************************************************************)
(* Bounds of the model.                                                    *)
(***************************************************************************)
\* Number of node slots below the root in the general trees.
NumNodes == 6
\* At most this many failing file-system queries per tree.
MaxFaults == 1
\* The flat directories hold up to this many files.
MaxFlat == 12

(***************************************************************************)
(* Program constants.                                                      *)
(***************************************************************************)
\* len(largest_files) > 10 and largest_files[:10], lines 66 and 68.
TopN == 10
\* largest_files[:10] of the report, line 102.
ReportTop == 10
\* sorted_types[:15], line 97.
TypesShown == 15
\* "="*70, lines 83, 85, 106.
BannerWidth == 70
\* size < 1024.0 and size /= 1024.0, lines 40 and 42.
UnitStep == 1024

(***************************************************************************)
(* Text.                                                                   *)
(***************************************************************************)
GIT == <<46, 103, 105, 116>>                                  \* ".git"
BANANA == <<66, 97, 110, 97, 110, 97>>                        \* "Banana"
APPLE_TXT == <<97, 112, 112, 108, 101, 46, 116, 120, 116>>    \* "apple.txt"
DATA == <<68, 97, 116, 97>>                                   \* "Data"
data == <<100, 97, 116, 97>>                                  \* "data"
NOTES_MD == <<78, 111, 116, 101, 115, 46, 77, 68>>            \* "Notes.MD"
ZEBRA_TXT == <<90, 101, 98, 114, 97, 46, 84, 88, 84>>         \* "Zebra.TXT"
ROOTNAME == <<114, 111, 111, 116>>                            \* "root"

\* 'no_ext', line 62.
NoExt == <<110, 111, 95, 101, 120, 116>>
\* The connectors and the indentation tokens of lines 54-55.
ConnLast == <<9492, 9472, 9472, 32>>
ConnMid == <<9500, 9472, 9472, 32>>
ExtLast == <<32, 32, 32, 32>>
ExtMid == <<9474, 32, 32, 32>>

\* EXCLUDED_DIRECTORIES, line 16.
EXCLUDED_DIRECTORIES ==
    { GIT,
      <<95, 95, 112, 121, 99, 97, 99, 104, 101, 95, 95>>,
      <<110, 111, 100, 101, 95, 109, 111, 100, 117, 108, 101, 115>>,
      <<46, 118, 101, 110, 118>>,
      <<118, 101, 110, 118>>,
      DATA,
      <<79, 117, 116, 112, 117, 116>>,
      <<82, 101, 115, 117, 108, 116, 115>>,
      <<100, 111, 99>>,
      <<46, 105, 100, 101, 97>>,
      <<111, 98, 115, 111, 108, 101, 116, 101>>,
      <<112, 121, 97, 105, 100, 46, 101, 103, 103, 45, 105, 110, 102, 111>>,
      <<112, 121, 97, 105, 100, 45, 101, 120, 97, 109, 112, 108, 101>>,
      <<112, 121, 97, 105, 100, 114, 108>>,
      <<112, 121, 97, 105, 100, 114, 108, 98, 97, 115, 101, 108, 105, 110, 101, 115>> }

\* str.lower() on one ASCII code point.
LowerChar(c) == IF c >= 65 /\ c <= 90 THEN c + 32 ELSE c
\* str.lower(), lines 47 and 62.
Lower(s) == [i \in 1..Len(s) |-> LowerChar(s[i])]

\* Python's < on str: code point by code point, a proper prefix is smaller.
StrLess(a, b) ==
    \E k \in 0..Len(a) :
        /\ k <= Len(b)
        /\ \A i \in 1..k : a[i] = b[i]
        /\ \/ k = Len(a) /\ k < Len(b)
           \/ k < Len(a) /\ k < Len(b) /\ a[k + 1] < b[k + 1]

\* The index (1-based) of the last "." of a name, 0 when it has none: rfind.
LastDot(s) ==
    IF \E i \in 1..Len(s) : s[i] = 46
    THEN CHOOSE i \in 1..Len(s) :
             s[i] = 46 /\ \A j \in (i + 1)..Len(s) : s[j] # 46
    ELSE 0

\* PurePath.suffix: the last dotted part of the name, empty when the only
\* dot leads or ends the name.
Suffix(s) ==
    IF LastDot(s) > 1 /\ LastDot(s) < Len(s)
    THEN SubSeq(s, LastDot(s), Len(s))
    ELSE <<>>

\* entry.suffix.lower() or 'no_ext', line 62.
ExtOf(s) == IF Lower(Suffix(s)) = <<>> THEN NoExt ELSE Lower(Suffix(s))

(***************************************************************************)
(* format_size, lines 38-43.                                               *)
(***************************************************************************)
Units == <<"B", "KB", "MB", "GB", "TB", "PB">>

RECURSIVE Pow(_, _)
Pow(b, k) == IF k = 0 THEN 1 ELSE b * Pow(b, k - 1)

\* How often the loop of lines 39-42 divides before size < 1024.0 holds; at
\* most five times, after which line 43 returns.
RECURSIVE UnitIndex(_, _)
UnitIndex(n, k) ==
    IF k = Len(Units) - 1 \/ n < UnitStep THEN k ELSE UnitIndex(n \div UnitStep, k + 1)

\* q + r/den rounded to an integer, ties to even (0 <= r < den): what
\* "%.2f" does to a value that the float holds exactly (a division by a
\* power of two).
RoundHalfEven(q, r, den) ==
    IF 2 * r < den THEN q
    ELSE IF 2 * r > den THEN q + 1
    ELSE IF q % 2 = 0 THEN q ELSE q + 1

\* size * 100 / den rounded to an integer, for den a power of UnitStep.  The
\* product size * 100 is never formed, so that every size below 2^31 has its
\* value: the whole units give size \div den * 100, and the remainder is
\* multiplied in two parts of ten bits.
Hundredths(size, den) ==
    IF den = 1 THEN size * 100
    ELSE LET d1 == den \div UnitStep
             r  == size % den
             lo == (r % UnitStep) * 100
             a  == (r \div UnitStep) * 100 + lo \div UnitStep
             b  == lo % UnitStep
         IN  (size \div den) * 100
                 + RoundHalfEven(a \div d1, (a % d1) * UnitStep + b, den)

\* f"{size:.2f} {unit}": the number in hundredths, and the unit.
format_size(size) ==
    LET k == UnitIndex(size, 0)
    IN  [hundredths |-> Hundredths(size, Pow(UnitStep, k)),
         unit |-> Units[k + 1]]

(***************************************************************************)
(* The file system: the trees the scanner is run on.  A node is a path;    *)
(* node 0 is the root path.  kind is what is_dir() and is_file() see,      *)
(* "other" being an entry that is neither (a socket, a broken link), and   *)
(* "absent" a path that does not exist.  stat = "fail" makes               *)
(* path.stat() raise OSError; list = "denied" makes path.iterdir() raise   *)
(* PermissionError and list = "oserror" another OSError.                   *)
(***************************************************************************)
Node(p, k, nm, sz, st, ls) ==
    [parent |-> p, kind |-> k, name |-> nm, size |-> sz, stat |-> st, list |-> ls]

\* The parent of each slot of the general trees: the root holds slots 1-3,
\* slot 1 holds 4 and 5, slot 4 holds 6, slot 2 holds 7.
ParentOf == <<0, 0, 0, 1, 1, 4, 2>>
\* The name of each slot.  "Data" and "data" are siblings that differ in case
\* only; ".git" and "Data" are names of EXCLUDED_DIRECTORIES.
SlotName == <<BANANA, GIT, APPLE_TXT, DATA, data, NOTES_MD, ZEBRA_TXT>>
\* The size of each slot when it is a regular file.
SlotSize == <<3, 0, 1536, 2, 2, 1, 1048576>>
\* The slots that may hold an entry that is neither file nor directory.
OtherSlots == {3, 5}

Faults(t) ==
    Cardinality({n \in DOMAIN t : t[n].stat = "fail" \/ t[n].list # "ok"})

RootOptions ==
    { Node(0, "absent", <<>>, 0, "ok", "ok"),
      Node(0, "file", ROOTNAME, 0, "ok", "ok"),
      Node(0, "dir", ROOTNAME, 0, "ok", "ok"),
      Node(0, "dir", ROOTNAME, 0, "ok", "denied"),
      Node(0, "dir", ROOTNAME, 0, "ok", "oserror") }

\* What slot n may hold in a tree t that already fixes the slots before it.
Options(t, n) ==
    LET p == ParentOf[n]
        nm == SlotName[n]
    IN  IF t[p].kind # "dir" THEN { Node(p, "absent", <<>>, 0, "ok", "ok") }
        ELSE { Node(p, "absent", <<>>, 0, "ok", "ok"),
               Node(p, "file", nm, SlotSize[n], "ok", "ok"),
               Node(p, "dir", nm, 0, "ok", "ok") }
             \cup (IF n \in OtherSlots
                   THEN { Node(p, "other", nm, 0, "ok", "ok") } ELSE {})
             \cup (IF Faults(t) < MaxFaults
                   THEN { Node(p, "file", nm, SlotSize[n], "fail", "ok"),
                          Node(p, "dir", nm, 0, "ok", "denied"),
                          Node(p, "dir", nm, 0, "ok", "oserror") }
                   ELSE {})

RECURSIVE Trees(_)
Trees(n) ==
    IF n = 0 THEN { [i \in {0} |-> r] : r \in RootOptions }
    ELSE { [i \in 0..n |-> IF i = n THEN o[2] ELSE o[1][i]] :
               o \in UNION { {<<t, x>> : x \in Options(t, n)} : t \in Trees(n - 1) } }

\* The name of the i-th file of a flat directory: "fa", "fb", ...
FlatName(i) == <<102, 96 + i>>

\* A root directory holding k files; those of big have size 2, the others 1.
FlatTree(k, big) ==
    [i \in 0..k |->
        IF i = 0 THEN Node(0, "dir", ROOTNAME, 0, "ok", "ok")
        ELSE Node(0, "file", FlatName(i), IF i \in big THEN 2 ELSE 1, "ok", "ok")]

\* A root directory holding TopN + 1 files of the sizes 1..TopN + 1, rotated.
RotTree(r) ==
    [i \in 0..(TopN + 1) |->
        IF i = 0 THEN Node(0, "dir", ROOTNAME, 0, "ok", "ok")
        ELSE Node(0, "file", FlatName(i), ((i - 1 + r) % (TopN + 1)) + 1, "ok", "ok")]

FlatTrees ==
    { FlatTree(kb[1], kb[2]) :
          kb \in UNION { {<<k, b>> : b \in SUBSET (1..k)} : k \in 0..MaxFlat } }
    \cup { RotTree(r) : r \in 0..TopN }

(***************************************************************************)
(* State.                                                                  *)
(*   fs          the tree the run is given (never changes)                 *)
(*   excluded    self.excluded_dirs                                        *)
(*   pc          where run() is: "start", "scan" (inside scan_directory),  *)
(*               "report" (scan returned), "done", "exit1" (sys.exit(1)),  *)
(*               "crashed" (an exception left run())                       *)
(*   stack       the frames of scan_directory, innermost last              *)
(*   stats       self.stats                                                *)
(*   output      the lines printed by run() and scan_directory             *)
(*   report      the lines printed by print_statistics                     *)
(*   calls       the calls of scan_directory in call order, each with the  *)
(*               path and what line 47 gave: the sorted entries, or the    *)
(*               exception                                                 *)
(*   reportCalls how often print_statistics was called                     *)
(***************************************************************************)
VARIABLES fs, excluded, pc, stack, stats, output, report, calls, reportCalls

vars == <<fs, excluded, pc, stack, stats, output, report, calls, reportCalls>>

(***************************************************************************)
(* The file-system collaborator.                                           *)
(***************************************************************************)
exists(n) == fs[n].kind # "absent"
is_dir(n) == fs[n].kind = "dir"
is_file(n) == fs[n].kind = "file"

RECURSIVE Ascending(_)
Ascending(S) ==
    IF S = {} THEN <<>>
    ELSE LET m == CHOOSE x \in S : \A y \in S : x <= y
         IN  <<m>> \o Ascending(S \ {m})

Reverse(s) == [i \in 1..Len(s) |-> s[Len(s) + 1 - i]]

ChildSet(p) == {n \in DOMAIN fs : n # 0 /\ fs[n].parent = p /\ exists(n)}

\* path.iterdir(): the children in the order the system yields them, which
\* is by slot, or (rev) by slot backwards.
iterdir(p, rev) ==
    IF rev THEN Reverse(Ascending(ChildSet(p))) ELSE Ascending(ChildSet(p))

\* get_size, lines 32-36.
get_size(n) == IF fs[n].stat = "ok" THEN fs[n].size ELSE 0

(***************************************************************************)
(* sorted(..., key=lambda x: (not x.is_dir(), x.name.lower())), line 47.   *)
(***************************************************************************)
\* A slip: the key compares the names as they are, without lower().
KeyLessCaseSensitive(a, b) ==
    LET fa == IF is_dir(a) THEN 0 ELSE 1
        fb == IF is_dir(b) THEN 0 ELSE 1
    IN  \/ fa < fb
        \/ fa = fb /\ StrLess(fs[a].name, fs[b].name)

\* key(a) < key(b) for the tuples (not is_dir, name.lower()).
KeyLess(a, b) ==
    LET fa == IF is_dir(a) THEN 0 ELSE 1
        fb == IF is_dir(b) THEN 0 ELSE 1
    IN  \/ fa < fb
        \/ fa = fb /\ StrLess(Lower(fs[a].name), Lower(fs[b].name))

\* x put into the sorted s behind everything that is not greater: stable.
InsertByKey(s, x) ==
    LET k == Cardinality({i \in 1..Len(s) : ~KeyLess(x, s[i])})
    IN  SubSeq(s, 1, k) \o <<x>> \o SubSeq(s, k + 1, Len(s))

RECURSIVE SortedFrom(_, _, _)
SortedFrom(s, i, acc) ==
    IF i > Len(s) THEN acc ELSE SortedFrom(s, i + 1, InsertByKey(acc, s[i]))

sorted(s) == SortedFrom(s, 1, <<>>)

(***************************************************************************)
(* list.sort(key=lambda x: x[1], reverse=True), lines 67 and 95-96: stable,*)
(* descending.                                                             *)
(***************************************************************************)
\* x put into the descending s behind everything that is not smaller: the
\* sort is stable, also with reverse=True.
InsertBySize(s, x) ==
    LET k == Cardinality({i \in 1..Len(s) : s[i].size >= x.size})
    IN  SubSeq(s, 1, k) \o <<x>> \o SubSeq(s, k + 1, Len(s))

InsertByCount(s, x) ==
    LET k == Cardinality({i \in 1..Len(s) : s[i].count >= x.count})
    IN  SubSeq(s, 1, k) \o <<x>> \o SubSeq(s, k + 1, Len(s))

RECURSIVE SortBySizeFrom(_, _, _)
SortBySizeFrom(s, i, acc) ==
    IF i > Len(s) THEN acc ELSE SortBySizeFrom(s, i + 1, InsertBySize(acc, s[i]))

RECURSIVE SortByCountFrom(_, _, _)
SortByCountFrom(s, i, acc) ==
    IF i > Len(s) THEN acc ELSE SortByCountFrom(s, i + 1, InsertByCount(acc, s[i]))

\* A slip: reverse=True forgotten, the list sorted ascending.
SortBySizeAscending(s) == Reverse(SortBySizeFrom(s, 1, <<>>))

\* self.stats['largest_files'].sort(key=lambda x: x[1], reverse=True)
SortBySize(s) == SortBySizeFrom(s, 1, <<>>)
\* sorted(file_types.items(), key=lambda x: x[1], reverse=True)
SortByCount(s) == SortByCountFrom(s, 1, <<>>)

\* s[:n]
Take(s, n) == SubSeq(s, 1, IF Len(s) < n THEN Len(s) ELSE n)

(***************************************************************************)
(* The statistics, lines 23-30 and 59-68.                                  *)
(***************************************************************************)
InitStats ==
    [total_files |-> 0, total_dirs |-> 0, total_size |-> 0,
     file_types |-> <<>>, largest_files |-> <<>>, skipped_dirs |-> 0]

\* A slip: file_types[ext] = 1 in place of file_types[ext] += 1.
AddFileTypeAssign(ft, ext) ==
    IF \E i \in 1..Len(ft) : ft[i].ext = ext
    THEN [i \in 1..Len(ft) |->
             IF ft[i].ext = ext THEN [ft[i] EXCEPT !.count = 1] ELSE ft[i]]
    ELSE Append(ft, [ext |-> ext, count |-> 1])

\* file_types[ext] += 1 on a defaultdict(int): a dict keeps insertion order.
AddFileType(ft, ext) ==
    IF \E i \in 1..Len(ft) : ft[i].ext = ext
    THEN [i \in 1..Len(ft) |->
             IF ft[i].ext = ext THEN [ft[i] EXCEPT !.count = @ + 1] ELSE ft[i]]
    ELSE Append(ft, [ext |-> ext, count |-> 1])

\* A slip: the list is sorted but cut one entry too late.
AddLargestCutLate(lf, n, size) ==
    LET a == Append(lf, [entry |-> n, size |-> size])
    IN  IF Len(a) > TopN + 1 THEN Take(SortBySizeFrom(a, 1, <<>>), TopN) ELSE a

\* Lines 65-68: append, and beyond ten entries sort and cut.
AddLargest(lf, n, size) ==
    LET a == Append(lf, [entry |-> n, size |-> size])
    IN  IF Len(a) > TopN THEN Take(SortBySize(a), TopN) ELSE a

\* A slip: a directory counted only once its listing succeeded.
CountDirIfListed(st, n) ==
    IF fs[n].list = "ok" THEN [st EXCEPT !.total_dirs = @ + 1] ELSE st

\* Line 78.
CountDir(st, n) == [st EXCEPT !.total_dirs = @ + 1]

\* Line 74.
CountSkipped(st, n) == [st EXCEPT !.skipped_dirs = @ + 1]

\* Lines 58-68.
CountFile(st, n) ==
    LET size == get_size(n)
    IN  [st EXCEPT !.total_files = @ + 1,
                   !.total_size = @ + size,
                   !.file_types = AddFileType(@, ExtOf(fs[n].name)),
                   !.largest_files = AddLargest(@, n, size)]

(***************************************************************************)
(* Printed lines.                                                          *)
(***************************************************************************)
NoFmt == [hundredths |-> 0, unit |-> "-"]

Line(kind, n, prefix, connector, name, fmt) ==
    [kind |-> kind, node |-> n, prefix |-> prefix, connector |-> connector,
     name |-> name, size |-> fmt]

\* Lines 117-120.
Header ==
    << Line("scanning", 0, <<>>, <<>>, fs[0].name, NoFmt),
       Line("started", 0, <<>>, <<>>, <<>>, NoFmt),
       Line("rule", 0, <<>>, <<>>, <<>>, NoFmt),
       Line("rootname", 0, <<>>, <<>>, fs[0].name, NoFmt) >>

(***************************************************************************)
(* The frames of scan_directory.                                           *)
(***************************************************************************)
\* entries is what line 47 gave.
Frame(n, prefix, entries) ==
    [dir |-> n, entries |-> entries, idx |-> 1, prefix |-> prefix]

\* Frames whose loop has no entry left return to their caller.
RECURSIVE Unwind(_)
Unwind(st) ==
    IF st = <<>> THEN st
    ELSE IF st[Len(st)].idx > Len(st[Len(st)].entries)
         THEN Unwind(SubSeq(st, 1, Len(st) - 1))
         ELSE st

\* The loop of the innermost frame moves past its current entry.
Step(st) == [st EXCEPT ![Len(st)].idx = @ + 1]

\* The iteration ends without a call: on to the next entry, or return.
Advance(st) == Unwind(Step(st))

\* scan_directory(n, prefix) called with the frames st below it: lines 46-50.
\* A PermissionError returns at once, a listing pushes a frame.
Enter(st, n, prefix, entries) ==
    IF fs[n].list = "ok" THEN Unwind(Append(st, Frame(n, prefix, entries)))
    ELSE Unwind(st)

\* Line 47: the sorted entries of n when the system lists it in the order
\* rev; nothing when iterdir() raises.
Listing(n, rev) == IF fs[n].list = "ok" THEN sorted(iterdir(n, rev)) ELSE <<>>

\* The record of that call.
Call(n, entries) == [dir |-> n, result |-> fs[n].list, entries |-> entries]

\* A slip: no except clause, a PermissionError leaves scan_directory too.
RaisesAlsoDenied(n) == fs[n].list # "ok"

\* The listing raises an exception that line 48 does not catch.
Raises(n) == fs[n].list = "oserror"

\* What the call prints by itself: the marker of line 49.
EnterOutput(n, prefix) ==
    IF fs[n].list = "denied"
    THEN << Line("denied", n, prefix, <<>>, <<>>, NoFmt) >>
    ELSE <<>>

\* Where run() is once the step that left the frames st is over.
PcAfter(st) == IF st = <<>> THEN "report" ELSE "scan"

Top == stack[Len(stack)]
Entry == Top.entries[Top.idx]
\* Lines 53-55.
is_final == Top.idx = Len(Top.entries)
connector == IF is_final THEN ConnLast ELSE ConnMid
extension == IF is_final THEN ExtLast ELSE ExtMid

(***************************************************************************)
(* print_statistics, lines 82-106.                                         *)
(***************************************************************************)
RLine(label, num, ext, fmt, path) ==
    [label |-> label, num |-> num, ext |-> ext, size |-> fmt, path |-> path]

\* file_path.relative_to(self.root): the names from below the root down.
RECURSIVE RelPath(_)
RelPath(n) == IF n = 0 THEN <<>> ELSE Append(RelPath(fs[n].parent), fs[n].name)

Banner == RLine("banner", BannerWidth, <<>>, NoFmt, <<>>)

TypeLines ==
    LET shown == Take(SortByCount(stats.file_types), TypesShown)
    IN  IF stats.file_types = <<>> THEN <<>>
        ELSE << RLine("File Type Distribution:", 0, <<>>, NoFmt, <<>>) >>
             \o [i \in 1..Len(shown) |->
                    RLine("type", shown[i].count, shown[i].ext, NoFmt, <<>>)]

LargestLines ==
    LET shown == Take(stats.largest_files, ReportTop)
    IN  IF stats.largest_files = <<>> THEN <<>>
        ELSE << RLine("Largest Files:", 0, <<>>, NoFmt, <<>>) >>
             \o [i \in 1..Len(shown) |->
                    RLine("largest", 0, <<>>, format_size(shown[i].size),
                          RelPath(shown[i].entry))]

ReportLines ==
    << Banner,
       RLine("SCAN STATISTICS", 0, <<>>, NoFmt, <<>>),
       Banner,
       RLine("Total Directories", stats.total_dirs, <<>>, NoFmt, <<>>),
       RLine("Total Files", stats.total_files, <<>>, NoFmt, <<>>),
       RLine("Total Size", 0, <<>>, format_size(stats.total_size), <<>>) >>
    \o (IF stats.skipped_dirs > 0
        THEN << RLine("Skipped Directories", stats.skipped_dirs, <<>>, NoFmt, <<>>) >>
        ELSE <<>>)
    \o TypeLines
    \o LargestLines
    \o << Banner >>

(***************************************************************************)
(* The run.                                                                *)
(***************************************************************************)
Init ==
    /\ \/ /\ fs \in Trees(NumNodes)
          /\ excluded \in {{}, EXCLUDED_DIRECTORIES}
       \/ /\ fs \in FlatTrees
          /\ excluded = EXCLUDED_DIRECTORIES
    /\ pc = "start"
    /\ stack = <<>>
    /\ stats = InitStats
    /\ output = <<>>
    /\ report = <<>>
    /\ calls = <<>>
    /\ reportCalls = 0

\* run(), lines 109-111: the root does not exist.
RunMissing ==
    /\ pc = "start"
    /\ ~exists(0)
    /\ output' = Append(output, Line("error_missing", 0, <<>>, <<>>, <<>>, NoFmt))
    /\ pc' = "exit1"
    /\ UNCHANGED <<fs, excluded, stack, stats, report, calls, reportCalls>>

\* A slip: the check of line 113 left out, so that line 122 runs and
\* iterdir() raises NotADirectoryError.
RunNotDirUnchecked ==
    /\ pc = "start"
    /\ exists(0)
    /\ ~is_dir(0)
    /\ output' = output \o Header
    /\ calls' = Append(calls, [dir |-> 0, result |-> "oserror", entries |-> <<>>])
    /\ pc' = "crashed"
    /\ UNCHANGED <<fs, excluded, stack, stats, report, reportCalls>>

\* run(), lines 113-115: the root is not a directory.
RunNotDir ==
    /\ pc = "start"
    /\ exists(0)
    /\ ~is_dir(0)
    /\ output' = Append(output, Line("error_notdir", 0, <<>>, <<>>, fs[0].name, NoFmt))
    /\ pc' = "exit1"
    /\ UNCHANGED <<fs, excluded, stack, stats, report, calls, reportCalls>>

\* run(), lines 117-122: the header, and scan_directory(self.root) up to its
\* loop.
RunScan ==
    /\ pc = "start"
    /\ exists(0)
    /\ is_dir(0)
    /\ output' = output \o Header \o EnterOutput(0, <<>>)
    /\ \E rev \in BOOLEAN :
          LET entries == Listing(0, rev)
          IN  /\ calls' = Append(calls, Call(0, entries))
              /\ IF Raises(0)
                 THEN stack' = <<>> /\ pc' = "crashed"
                 ELSE /\ stack' = Enter(<<>>, 0, <<>>, entries)
                      /\ pc' = PcAfter(stack')
    /\ UNCHANGED <<fs, excluded, stats, report, reportCalls>>

\* One iteration of the loop on a regular file, lines 57-70.
VisitFile ==
    /\ pc = "scan"
    /\ is_file(Entry)
    /\ stats' = CountFile(stats, Entry)
    /\ output' = Append(output, Line("file", Entry, Top.prefix, connector,
                                     fs[Entry].name, format_size(get_size(Entry))))
    /\ stack' = Advance(stack)
    /\ pc' = PcAfter(stack')
    /\ UNCHANGED <<fs, excluded, report, calls, reportCalls>>

\* A slip: only the directories right below the root are checked.
IsExcludedTopLevel(n) == fs[n].name \in excluded /\ fs[n].parent = 0

\* entry.name in self.excluded_dirs, line 73.
IsExcluded(n) == fs[n].name \in excluded

\* One iteration on an excluded directory, lines 72-76.
VisitSkipped ==
    /\ pc = "scan"
    /\ ~is_file(Entry)
    /\ is_dir(Entry)
    /\ IsExcluded(Entry)
    /\ stats' = CountSkipped(stats, Entry)
    /\ output' = Append(output, Line("skipped", Entry, Top.prefix, connector,
                                     fs[Entry].name, NoFmt))
    /\ stack' = Advance(stack)
    /\ pc' = PcAfter(stack')
    /\ UNCHANGED <<fs, excluded, report, calls, reportCalls>>

\* One iteration on any other directory, lines 72-80: counted, printed, and
\* scan_directory called on it.
VisitDir ==
    /\ pc = "scan"
    /\ ~is_file(Entry)
    /\ is_dir(Entry)
    /\ ~IsExcluded(Entry)
    /\ stats' = CountDir(stats, Entry)
    /\ output' = Append(output, Line("dir", Entry, Top.prefix, connector,
                                     fs[Entry].name, NoFmt))
                 \o EnterOutput(Entry, Top.prefix \o extension)
    /\ \E rev \in BOOLEAN :
          LET entries == Listing(Entry, rev)
          IN  /\ calls' = Append(calls, Call(Entry, entries))
              /\ IF Raises(Entry)
                 THEN stack' = <<>> /\ pc' = "crashed"
                 ELSE /\ stack' = Enter(Step(stack), Entry,
                                        Top.prefix \o extension, entries)
                      /\ pc' = PcAfter(stack')
    /\ UNCHANGED <<fs, excluded, report, reportCalls>>

\* One iteration on an entry that is neither a file nor a directory: neither
\* branch of lines 57 and 72 is taken.
VisitOther ==
    /\ pc = "scan"
    /\ ~is_file(Entry)
    /\ ~is_dir(Entry)
    /\ stack' = Advance(stack)
    /\ pc' = PcAfter(stack')
    /\ UNCHANGED <<fs, excluded, stats, output, report, calls, reportCalls>>

\* run(), line 123.
PrintStatistics ==
    /\ pc = "report"
    /\ report' = ReportLines
    /\ reportCalls' = reportCalls + 1
    /\ pc' = "done"
    /\ UNCHANGED <<fs, excluded, stack, stats, output, calls>>

Next ==
    \/ RunMissing
    \/ RunNotDir
    \/ RunScan
    \/ VisitFile
    \/ VisitSkipped
    \/ VisitDir
    \/ VisitOther
    \/ PrintStatistics

Spec == Init /\ [][Next]_vars

(***************************************************************************)
(* What the properties speak about.                                        *)
(***************************************************************************)
Min(a, b) == IF a < b THEN a ELSE b

RECURSIVE SumCounts(_, _)
SumCounts(ft, i) == IF i > Len(ft) THEN 0 ELSE ft[i].count + SumCounts(ft, i + 1)

\* The proper ancestors of a path.
RECURSIVE Ancestors(_)
Ancestors(n) == IF n = 0 THEN {} ELSE {fs[n].parent} \cup Ancestors(fs[n].parent)

\* The tree lines: one per entry that scan_directory printed.
EntryKinds == {"file", "dir", "skipped"}
LinesOfKind(k) == {i \in 1..Len(output) : output[i].kind = k}
EntryLines == {i \in 1..Len(output) : output[i].kind \in EntryKinds}
VisitedFiles == {output[i].node : i \in LinesOfKind("file")}

Called(n) == \E i \in 1..Len(calls) : calls[i].dir = n
CallOf(n) == calls[CHOOSE i \in 1..Len(calls) : calls[i].dir = n]

\* The directory entries met in the listings made so far.
DirEntriesListed ==
    UNION { { <<c, i>> : i \in {j \in 1..Len(calls[c].entries) :
                                   fs[calls[c].entries[j]].kind = "dir"} } :
            c \in 1..Len(calls) }

RECURSIVE SumSizes(_)
SumSizes(S) ==
    IF S = {} THEN 0
    ELSE LET f == CHOOSE x \in S : TRUE IN get_size(f) + SumSizes(S \ {f})

\* Where x stands in the sequence s, 0 when it does not.
PosIn(s, x) ==
    IF \E i \in 1..Len(s) : s[i] = x THEN CHOOSE i \in 1..Len(s) : s[i] = x ELSE 0

\* The statistics the recorded traversal gives when the paths of gone are
\* taken out of every listing: the loop of lines 52-80 over the entries es
\* from the i-th on, starting from the statistics st.
RECURSIVE Replay(_, _, _, _)
Replay(es, i, st, gone) ==
    IF i > Len(es) THEN st
    ELSE LET e == es[i]
         IN  IF e \in gone THEN Replay(es, i + 1, st, gone)
             ELSE IF is_file(e) THEN Replay(es, i + 1, CountFile(st, e), gone)
             ELSE IF ~is_dir(e) THEN Replay(es, i + 1, st, gone)
             ELSE IF fs[e].name \in excluded
                  THEN Replay(es, i + 1, CountSkipped(st, e), gone)
             ELSE Replay(es, i + 1,
                         IF Called(e)
                         THEN Replay(CallOf(e).entries, 1, CountDir(st, e), gone)
                         ELSE CountDir(st, e),
                         gone)

ReplayRun(gone) ==
    IF Called(0) THEN Replay(CallOf(0).entries, 1, InitStats, gone) ELSE InitStats

\* The directories below the root whose listing was denied in this run.
DeniedBelowRoot ==
    {calls[i].dir : i \in {j \in 1..Len(calls) :
                              calls[j].result = "denied" /\ calls[j].dir # 0}}

(***************************************************************************)
(* C1.  After every processed entry, and so at the end of the run,         *)
(* total_files equals the sum of the values of file_types.                 *)
(***************************************************************************)
C1_TotalFilesIsSumOfTypes ==
    stats.total_files = SumCounts(stats.file_types, 1)

\* A finished run that counted three files or more under two extensions or
\* more, so that one extension was counted twice.
C1_Witness ==
    /\ pc = "done"
    /\ stats.total_files >= 3
    /\ Len(stats.file_types) >= 2
    /\ \E i \in 1..Len(stats.file_types) : stats.file_types[i].count >= 2

(***************************************************************************)
(* C2.  At the end of a run total_dirs + skipped_dirs is the number of     *)
(* directory entries met as children in the listings of the traversal,     *)
(* excluded directories and directories whose own listing is denied        *)
(* included, the root not.                                                 *)
(***************************************************************************)
C2_DirsPlusSkippedIsDirEntries ==
    pc = "done" =>
        stats.total_dirs + stats.skipped_dirs = Cardinality(DirEntriesListed)

\* A finished run that met a skipped directory, a directory whose listing
\* was denied and a directory that was listed.
C2_Witness ==
    /\ pc = "done"
    /\ stats.skipped_dirs >= 1
    /\ DeniedBelowRoot # {}
    /\ \E i \in 1..Len(calls) : calls[i].dir # 0 /\ calls[i].result = "ok"

(***************************************************************************)
(* C3.  A directory below the root whose name is in the exclusion set is   *)
(* never descended into: scan_directory is never called on it, it has at   *)
(* most one line, a [SKIPPED] one (exactly one once the run is over and    *)
(* the directory was met in a listing), nothing beneath it has a line, and *)
(* the statistics count the printed lines only: skipped_dirs the [SKIPPED] *)
(* lines, total_dirs the directory lines, total_files, total_size and      *)
(* largest_files the file lines.                                           *)
(***************************************************************************)
C3_ExcludedNeverDescended ==
    /\ \A n \in DOMAIN fs \ {0} :
          (fs[n].kind = "dir" /\ fs[n].name \in excluded) =>
              /\ ~Called(n)
              /\ \A i \in 1..Len(stack) : stack[i].dir # n
              /\ \A i \in 1..Len(output) :
                    /\ output[i].node = n => output[i].kind = "skipped"
                    /\ n \notin Ancestors(output[i].node)
              /\ Cardinality({i \in 1..Len(output) : output[i].node = n}) <= 1
              /\ (pc = "done" /\ \E c \in 1..Len(calls) : PosIn(calls[c].entries, n) > 0)
                    => \E i \in LinesOfKind("skipped") : output[i].node = n
    /\ stats.skipped_dirs = Cardinality(LinesOfKind("skipped"))
    /\ stats.total_dirs = Cardinality(LinesOfKind("dir"))
    /\ stats.total_files = Cardinality(LinesOfKind("file"))
    /\ stats.total_size = SumSizes(VisitedFiles)
    /\ \A i \in 1..Len(stats.largest_files) :
          stats.largest_files[i].entry \in VisitedFiles
    /\ \A i \in LinesOfKind("dir") : fs[output[i].node].name \notin excluded

\* A finished run that skipped a directory two levels below the root which
\* holds an entry.
C3_Witness ==
    /\ pc = "done"
    /\ \E i \in LinesOfKind("skipped") :
          /\ fs[output[i].node].parent # 0
          /\ ChildSet(output[i].node) # {}

(***************************************************************************)
(* C4.  After every processed file entry largest_files holds at most ten   *)
(* entries.                                                                *)
(***************************************************************************)
C4_LargestAtMostTen == Len(stats.largest_files) <= TopN

\* More than eleven files processed, so that the list was cut twice.
C4_Witness ==
    /\ stats.total_files > TopN + 1
    /\ Len(stats.largest_files) = TopN

(***************************************************************************)
(* C5.  largest_files is a true top ten of the files visited so far: it    *)
(* holds min(n, 10) different visited files with their sizes, and no       *)
(* visited file left out of it is larger than one in it.                   *)
(***************************************************************************)
C5_LargestIsTopTen ==
    LET lf == stats.largest_files
        kept == {lf[i].entry : i \in 1..Len(lf)}
    IN  /\ Len(lf) = Min(Cardinality(VisitedFiles), TopN)
        /\ Cardinality(kept) = Len(lf)
        /\ \A i \in 1..Len(lf) :
              /\ lf[i].entry \in VisitedFiles
              /\ lf[i].size = get_size(lf[i].entry)
        /\ \A f \in VisitedFiles \ kept :
              \A i \in 1..Len(lf) : lf[i].size >= get_size(f)

\* Eleven files of the sizes 1..11 in one directory: the sizes 2..11 are
\* kept.
C5_Witness ==
    /\ pc = "done"
    /\ stats.total_files = TopN + 1
    /\ {get_size(f) : f \in VisitedFiles} = 1..(TopN + 1)
    /\ {stats.largest_files[i].size : i \in 1..Len(stats.largest_files)}
           = 2..(TopN + 1)

(***************************************************************************)
(* C6.  As claimed: a directory whose listing is denied gets its marker,   *)
(* raises nothing, leaves every other listed entry to be visited, and adds *)
(* to no statistic, total_dirs included: all six end as if the directory   *)
(* had not been there.  The run refutes the part about total_dirs.         *)
(***************************************************************************)
\* A crash never comes from a denied listing.
DeniedNeverRaises ==
    pc = "crashed" => calls[Len(calls)].result = "oserror"

\* The marker follows the line of the denied directory (for the root, the
\* header), and nothing beneath the directory has a line.
DeniedIsMarked ==
    \A c \in 1..Len(calls) :
        calls[c].result = "denied" =>
            LET d == calls[c].dir
            IN  /\ \E i \in 2..Len(output) :
                      /\ output[i].kind = "denied" /\ output[i].node = d
                      /\ output[i - 1].node = d
                      /\ output[i - 1].kind = IF d = 0 THEN "rootname" ELSE "dir"
                /\ \A i \in 1..Len(output) : d \notin Ancestors(output[i].node)

\* Every entry of every listing made was processed.
AllListedProcessed ==
    \A c \in 1..Len(calls) :
        \A k \in 1..Len(calls[c].entries) :
            LET e == calls[c].entries[k]
            IN  /\ is_file(e) => \E i \in LinesOfKind("file") : output[i].node = e
                /\ is_dir(e) =>
                      \E i \in LinesOfKind("dir") \cup LinesOfKind("skipped") :
                          output[i].node = e
                /\ (is_dir(e) /\ fs[e].name \notin excluded) => Called(e)

C6_DeniedAddsToNoStatistic ==
    /\ DeniedNeverRaises
    /\ DeniedIsMarked
    /\ pc = "done" =>
          /\ AllListedProcessed
          /\ \A d \in DeniedBelowRoot : stats = ReplayRun({d})

(***************************************************************************)
(* C6, amended.  The denied directory was counted in total_dirs when its   *)
(* line was printed, before its listing was tried: total_dirs ends one     *)
(* higher than without the directory, the other five statistics end as     *)
(* without it, and a denied root leaves all six at their initial values.   *)
(***************************************************************************)
C6_DeniedCountsAsDirectoryOnly ==
    /\ DeniedNeverRaises
    /\ DeniedIsMarked
    /\ pc = "done" =>
          /\ AllListedProcessed
          /\ stats = ReplayRun({})
          /\ \A d \in DeniedBelowRoot :
                [stats EXCEPT !.total_dirs = @ - 1] = ReplayRun({d})
          /\ CallOf(0).result = "denied" => stats = InitStats

\* A finished run with a denied directory two levels below the root that
\* holds an entry, with a file as its sibling and one as its parent's
\* sibling, both counted.
C6_Witness ==
    /\ pc = "done"
    /\ \E d \in DeniedBelowRoot :
          /\ fs[d].parent # 0
          /\ ChildSet(d) # {}
          /\ \E f \in VisitedFiles : fs[f].parent = fs[d].parent
          /\ \E f \in VisitedFiles : fs[f].parent = 0

(***************************************************************************)
(* C7.  With a root that does not exist or is not a directory the run ends *)
(* in sys.exit(1) before any traversal: scan_directory and                 *)
(* print_statistics are never called, the one line printed is the error,   *)
(* and the statistics stay as constructed.                                 *)
(***************************************************************************)
C7_InvalidRootExitsBeforeTraversal ==
    (~exists(0) \/ ~is_dir(0)) =>
        /\ pc \in {"start", "exit1"}
        /\ pc = "start" => ENABLED (RunMissing \/ RunNotDir)
        /\ pc = "exit1" => ~ENABLED Next
        /\ calls = <<>>
        /\ stack = <<>>
        /\ reportCalls = 0
        /\ report = <<>>
        /\ stats = InitStats
        /\ \A i \in 1..Len(output) :
              output[i].kind \in {"error_missing", "error_notdir"}
        /\ Len(output) = IF pc = "exit1" THEN 1 ELSE 0

\* The run on a root that is a regular file has exited.
C7_Witness ==
    /\ pc = "exit1"
    /\ is_file(0)

(***************************************************************************)
(* C8.  As claimed: with a valid root no file-system failure stops the     *)
(* run; the traversal completes and print_statistics is called exactly     *)
(* once.                                                                   *)
(***************************************************************************)
C8_ValidRootRunCompletes ==
    is_dir(0) =>
        /\ pc \in {"start", "scan", "report", "done"}
        /\ reportCalls = IF pc = "done" THEN 1 ELSE 0

(***************************************************************************)
(* C9.  As claimed: after every processed file largest_files is ordered    *)
(* descending by size.                                                     *)
(***************************************************************************)
C9_LargestAlwaysDescending ==
    \A i \in 1..(Len(stats.largest_files) - 1) :
        stats.largest_files[i].size >= stats.largest_files[i + 1].size

(***************************************************************************)
(* C10.  In every listed directory the entries are taken directories       *)
(* first and, within directories and within the rest, by lower-cased name; *)
(* the lines come out in depth-first pre-order of that order: an entry's   *)
(* line before the lines beneath it, and those before its next sibling's.  *)
(***************************************************************************)
\* No entry of es is followed by one that the claimed order puts before it
\* (the claimed order is transitive, so neighbours decide it).
InClaimedOrder(es) ==
    \A i \in 1..(Len(es) - 1) :
        LET a == es[i]
            b == es[i + 1]
        IN  /\ fs[b].kind = "dir" => fs[a].kind = "dir"
            /\ (fs[a].kind = "dir") = (fs[b].kind = "dir")
                  => ~StrLess(Lower(fs[b].name), Lower(fs[a].name))

\* Where a path stands in the recorded listings, from the root down: its
\* place among the root's entries, then among its parent's, and so on; 0
\* for a path found in no listing.  Depth-first pre-order is the
\* lexicographic order of these, a directory before what it holds; the
\* order is transitive, so lines that follow each other decide it.
RECURSIVE PlacePath(_)
PlacePath(n) ==
    IF n = 0 THEN <<>>
    ELSE Append(PlacePath(fs[n].parent),
                IF Called(fs[n].parent)
                THEN PosIn(CallOf(fs[n].parent).entries, n) ELSE 0)

C10_SortedPreorder ==
    /\ \A c \in 1..Len(calls) :
          /\ InClaimedOrder(calls[c].entries)
          /\ calls[c].result = "ok" =>
                /\ {calls[c].entries[k] : k \in 1..Len(calls[c].entries)}
                       = ChildSet(calls[c].dir)
                /\ Len(calls[c].entries) = Cardinality(ChildSet(calls[c].dir))
    /\ \A i \in EntryLines :
          LET place == PlacePath(output[i].node)
          IN  /\ \A k \in 1..Len(place) : place[k] > 0
              /\ \A j \in EntryLines :
                    (i < j /\ \A k \in EntryLines : ~(i < k /\ k < j))
                        => StrLess(place, PlacePath(output[j].node))

\* A finished run whose root holds the directories "apple.txt" and "Banana"
\* and the file ".git", listed in that order, with a line for an entry of
\* "Banana" between the lines of "Banana" and ".git".
C10_Witness ==
    /\ pc = "done"
    /\ CallOf(0).entries = <<3, 1, 2>>
    /\ is_dir(3) /\ is_dir(1) /\ is_file(2)
    /\ \E i \in EntryLines : \E j \in EntryLines : \E k \in EntryLines :
          /\ i < j /\ j < k
          /\ output[i].node = 1
          /\ fs[output[j].node].parent = 1
          /\ output[k].node = 2

====
